---- MODULE Spec2Model ----
(***************************************************************************)
(* Model of scripts/install-gltf-calibration-helpers.py: one run of main() *)
(* over a small POSIX-like filesystem (a tree of paths, inodes with byte   *)
(* content, a set of write-protected paths).                               *)
(***************************************************************************)
EXTENDS Integers, Sequences, FiniteSets, TLC

\* ---------------------------------------------------------------- bounds
MaxDepth == 3     \* depth of the destination directory chain /a/a/a
MaxLen == 1       \* longest file content, in bytes
MaxRO == 1        \* number of write-protected paths in the initial filesystem

Bytes == {0, 1}

\* ----------------------------------------------------------------- paths
Root == <<>>
ScriptDir == <<"pkg">>
Home == ScriptDir
Cwd == Root

\* line 26: Path(__file__).resolve().parent / "gltf-calibration-helpers.mjs"
src == ScriptDir \o <<"gltf-calibration-helpers.mjs">>

Chain(k) == [i \in 1..k |-> "a"]

Paths == {Root, ScriptDir, src} \cup {Chain(k) : k \in 1..MaxDepth}

Parent(p) == IF p = Root THEN Root ELSE SubSeq(p, 1, Len(p) - 1)

Contents == UNION {[1..n -> Bytes] : n \in 0..MaxLen}

Prefixes(c) == {SubSeq(c, 1, n) : n \in 0..Len(c)}

\* what an interrupted write can leave behind: a truncated destination
Partial(c) == IF c = <<>> THEN {<<>>} ELSE Prefixes(c) \ {c}

NoNode == [kind |-> "none", ino |-> Root]
DirNode == [kind |-> "dir", ino |-> Root]
FileNode(i) == [kind |-> "file", ino |-> i]

\* ------------------------------------------------------------ arguments
\* --out values as typed: "/" first = absolute, "~" first = home shorthand,
\* anything else is relative to the working directory
RawOuts ==
    {Chain(k) : k \in 1..MaxDepth}
        \cup {<<"/">> \o Chain(MaxDepth),
              <<"~", "..", "a">>,
              <<"~", "gltf-calibration-helpers.mjs">>,
              <<"a", "..", "pkg">>,
              <<"..">>}

RECURSIVE Norm(_, _)
Norm(base, rest) ==
    IF rest = <<>> THEN base
    ELSE IF Head(rest) = ".." THEN Norm(Parent(base), Tail(rest))
    ELSE IF Head(rest) = "." THEN Norm(base, Tail(rest))
    ELSE Norm(Append(base, Head(rest)), Tail(rest))

\* line 31: pathlib.Path(args.out).expanduser().resolve()
Resolve(out) ==
    IF out = <<>> THEN Cwd
    ELSE IF Head(out) = "/" THEN Norm(Root, Tail(out))
    ELSE IF Head(out) = "~" THEN Norm(Home, Tail(out))
    ELSE Norm(Cwd, out)

\* outcome of parser.parse_args(): a namespace, a usage error, or --help
Argvs ==
    [kind : {"ok"}, out : RawOuts, force : BOOLEAN]
        \cup {[kind |-> "usage", out |-> <<>>, force |-> FALSE],
              [kind |-> "help", out |-> <<>>, force |-> FALSE]}

\* ------------------------------------------------------------ os.mkdir
\* errno of the path lookup of p's parent: "" when every ancestor is a
\* directory
RECURSIVE LookupParent(_, _)
LookupParent(f, p) ==
    IF p = Root THEN ""
    ELSE LET up == LookupParent(f, Parent(p))
         IN  IF up # "" THEN up
             ELSE IF f[Parent(p)].kind = "none" THEN "ENOENT"
             ELSE IF f[Parent(p)].kind = "file" THEN "ENOTDIR"
             ELSE ""

OsMkdir(f, prot, p) ==
    IF p = Root THEN [fs |-> f, err |-> "EEXIST"]
    ELSE IF LookupParent(f, p) # "" THEN [fs |-> f, err |-> LookupParent(f, p)]
    ELSE IF f[p].kind # "none" THEN [fs |-> f, err |-> "EEXIST"]
    ELSE IF Parent(p) \in prot THEN [fs |-> f, err |-> "EACCES"]
    ELSE [fs |-> [f EXCEPT ![p] = DirNode], err |-> ""]

\* mutant: mkdir() called without parents=True
Mkdir_NoParents(f, prot, p, parents, exist_ok) ==
    LET r == OsMkdir(f, prot, p)
    IN  IF r.err = "" THEN r
        ELSE IF r.err = "ENOENT" \/ ~exist_ok \/ f[p].kind # "dir" THEN r
        ELSE [fs |-> f, err |-> ""]

\* pathlib.Path.mkdir(parents=True, exist_ok=...) as called on line 32
RECURSIVE Mkdir(_, _, _, _, _)
Mkdir(f, prot, p, parents, exist_ok) ==
    LET r == OsMkdir(f, prot, p)
    IN  IF r.err = "" THEN r
        ELSE IF r.err = "ENOENT" THEN
            IF ~parents \/ Parent(p) = p THEN r
            ELSE LET up == Mkdir(f, prot, Parent(p), TRUE, TRUE)
                 IN  IF up.err # "" THEN up
                     ELSE Mkdir(up.fs, prot, p, FALSE, exist_ok)
        ELSE IF ~exist_ok \/ f[p].kind # "dir" THEN r
        ELSE [fs |-> f, err |-> ""]

\* -------------------------------------------------------------- state
\* fs, data, ro : the filesystem (directory tree, inode contents, protected
\*                 paths)
\* pc, argv, dst  : position in main(), parsed command line, line 31's dst
\* fault          : whether the device fails while the copy is being written
\* status, stdout, stderr : the exit status (meaningful once pc = "exited")
\*                 and what the process has printed so far
\* pre, raised, copied    : history: filesystem at process start, the call
\*                 that raised, whether shutil.copyfile returned
VARIABLES fs, data, ro, pc, argv, fault, dst, pre, status, stdout, stderr,
          raised, copied

vars == <<fs, data, ro, pc, argv, fault, dst, pre, status, stdout, stderr,
          raised, copied>>

\* pathlib.Path.exists()
Exists(f, p) == f[p].kind # "none"

\* mutant: the same-file test compares path names only
SameFile_ByName(f, a, b) == Exists(f, a) /\ a = b

\* shutil._samefile(): both stat()s succeed and name the same inode
SameFile(f, a, b) ==
    /\ Exists(f, a)
    /\ Exists(f, b)
    /\ (a = b \/ (f[a].kind = "file" /\ f[b].kind = "file" /\ f[a].ino = f[b].ino))

\* mutant: the destination is opened for writing but nothing is copied
Copyfile_NoWrite(f, dt, prot, s, d, flt) ==
    LET i == IF f[d].kind = "file" THEN f[d].ino ELSE d
    IN  {[fs |-> [f EXCEPT ![d] = FileNode(i)],
          data |-> [dt EXCEPT ![i] = <<>>], err |-> ""]}

\* shutil.copyfile(s, d): the set of possible outcomes.  open(s, 'rb'),
\* then open(d, 'wb') creates or truncates d, then the bytes are read from s
\* and written to d.
Copyfile(f, dt, prot, s, d, flt) ==
    IF SameFile(f, s, d) THEN
        {[fs |-> f, data |-> dt, err |-> "SameFileError"]}
    ELSE IF ~Exists(f, s) THEN
        {[fs |-> f, data |-> dt, err |-> "FileNotFoundError"]}
    ELSE IF f[d].kind = "dir" THEN
        {[fs |-> f, data |-> dt, err |-> "IsADirectoryError"]}
    ELSE IF d \in prot \/ (f[d].kind = "none" /\ Parent(d) \in prot) THEN
        {[fs |-> f, data |-> dt, err |-> "PermissionError"]}
    ELSE LET i == IF f[d].kind = "file" THEN f[d].ino ELSE d
             g == [f EXCEPT ![d] = FileNode(i)]
             trunc == [dt EXCEPT ![i] = <<>>]
             c == trunc[f[s].ino]
         IN  IF flt THEN
                 {[fs |-> g, data |-> [trunc EXCEPT ![i] = part], err |-> "OSError"] :
                      part \in Partial(c)}
             ELSE {[fs |-> g, data |-> [trunc EXCEPT ![i] = c], err |-> ""]}

ExcName(errno) ==
    CASE errno = "ENOENT" -> "FileNotFoundError"
      [] errno = "ENOTDIR" -> "NotADirectoryError"
      [] errno = "EEXIST" -> "FileExistsError"
      [] errno = "EACCES" -> "PermissionError"
      [] OTHER -> errno

Line(text, path) == [text |-> text, path |-> path]

\* what the interpreter prints for an exception nobody caught
Traceback(exc, path) ==
    <<Line("Traceback (most recent call last):", Root),
      Line("  File install-gltf-calibration-helpers.py, in main", Root),
      Line(exc, path)>>

\* argparse: parser.error() and the --help action
UsageLines ==
    <<Line("usage: install-gltf-calibration-helpers.py [-h] --out OUT [--force]", Root),
      Line("error: the following arguments are required: --out", Root)>>

HelpLines ==
    <<Line("usage: install-gltf-calibration-helpers.py [-h] --out OUT [--force]", Root),
      Line("Install the threejs-builder GLTF calibration helper module into a project folder.", Root),
      Line("options:", Root)>>

\* ------------------------------------------------------- initial states
\* any well-formed filesystem: the script directory exists, the asset is
\* there or not, the destination chain exists down to some depth and may
\* end in a regular file (possibly a hard link to the asset)
InitFS(hasSrc, depth, tip) ==
    [p \in Paths |->
        IF p \in {Root, ScriptDir} THEN DirNode
        ELSE IF p = src THEN (IF hasSrc THEN FileNode(src) ELSE NoNode)
        ELSE IF Len(p) <= depth THEN DirNode
        ELSE IF Len(p) = depth + 1 /\ tip = "file" THEN FileNode(p)
        ELSE IF Len(p) = depth + 1 /\ tip = "link" THEN FileNode(src)
        ELSE NoNode]

InitData(f, cs, ct) ==
    [p \in Paths |->
        IF p = src /\ f[src].kind = "file" THEN cs
        ELSE IF p # src /\ f[p] = FileNode(p) THEN ct
        ELSE <<>>]

Init ==
    /\ \E hasSrc \in BOOLEAN, depth \in 0..MaxDepth,
          tip \in {"none", "file", "link"}, cs \in Contents, ct \in Contents :
          /\ tip = "link" => hasSrc
          /\ depth = MaxDepth => tip = "none"
          /\ fs = InitFS(hasSrc, depth, tip)
          /\ data = InitData(fs, IF hasSrc THEN cs ELSE <<>>,
                              IF tip = "file" THEN ct ELSE <<>>)
    /\ \E prot \in SUBSET {p \in Paths : Exists(fs, p)} :
          /\ Cardinality(prot) <= MaxRO
          /\ ro = prot
    /\ pc = "idle"
    /\ argv = [kind |-> "usage", out |-> <<>>, force |-> FALSE]
    /\ fault = FALSE
    /\ dst = Root
    /\ pre = [fs |-> fs, data |-> data]
    /\ status = 0
    /\ stdout = <<>>
    /\ stderr = <<>>
    /\ raised = "none"
    /\ copied = FALSE

\* ------------------------------------------------------------- actions
\* the process is started with a command line
Invoke(a, flt) ==
    /\ pc \in {"idle", "exited"}
    /\ argv' = a
    /\ fault' = flt
    /\ pre' = [fs |-> fs, data |-> data]
    /\ dst' = Root
    /\ status' = 0
    /\ stdout' = <<>>
    /\ stderr' = <<>>
    /\ raised' = "none"
    /\ copied' = FALSE
    /\ pc' = "parse"
    /\ UNCHANGED <<fs, data, ro>>

\* line 24: args = parser.parse_args()
ParseArgs ==
    /\ pc = "parse"
    /\ IF argv.kind = "usage" THEN
           /\ stderr' = UsageLines
           /\ status' = 2
           /\ pc' = "exited"
           /\ UNCHANGED stdout
       ELSE IF argv.kind = "help" THEN
           /\ stdout' = HelpLines
           /\ status' = 0
           /\ pc' = "exited"
           /\ UNCHANGED stderr
       ELSE
           /\ pc' = "srccheck"
           /\ UNCHANGED <<status, stdout, stderr>>
    /\ UNCHANGED <<fs, data, ro, argv, fault, dst, pre, raised, copied>>

\* mutant: the missing-source branch returns 0
CheckSource_ExitZero ==
    /\ pc = "srccheck"
    /\ IF ~Exists(fs, src) THEN
           /\ stderr' = Append(stderr, Line("[ERR] Missing source module: ", src))
           /\ status' = 0
           /\ pc' = "exited"
       ELSE
           /\ pc' = "resolve"
           /\ UNCHANGED <<status, stderr>>
    /\ UNCHANGED <<fs, data, ro, argv, fault, dst, pre, stdout, raised, copied>>

\* mutant: the destination's parents are created before the source check
CheckSource_AfterMkdir ==
    /\ pc = "srccheck"
    /\ fs' = Mkdir(fs, ro, Parent(Resolve(argv.out)), TRUE, TRUE).fs
    /\ IF ~Exists(fs, src) THEN
           /\ stderr' = Append(stderr, Line("[ERR] Missing source module: ", src))
           /\ status' = 2
           /\ pc' = "exited"
       ELSE
           /\ pc' = "resolve"
           /\ UNCHANGED <<status, stderr>>
    /\ UNCHANGED <<data, ro, argv, fault, dst, pre, stdout, raised, copied>>

\* lines 26-29
CheckSource ==
    /\ pc = "srccheck"
    /\ IF ~Exists(fs, src) THEN
           /\ stderr' = Append(stderr, Line("[ERR] Missing source module: ", src))
           /\ status' = 2
           /\ pc' = "exited"
       ELSE
           /\ pc' = "resolve"
           /\ UNCHANGED <<status, stderr>>
    /\ UNCHANGED <<fs, data, ro, argv, fault, dst, pre, stdout, raised, copied>>

\* line 31
ResolveDst ==
    /\ pc = "resolve"
    /\ dst' = Resolve(argv.out)
    /\ pc' = "mkdir"
    /\ UNCHANGED <<fs, data, ro, argv, fault, pre, status, stdout, stderr,
                   raised, copied>>

\* mutant: an OSError of mkdir() is caught and reported like the other errors
MakeParents_Caught ==
    /\ pc = "mkdir"
    /\ LET r == Mkdir(fs, ro, Parent(dst), TRUE, TRUE)
       IN  /\ fs' = r.fs
           /\ IF r.err # "" THEN
                  /\ raised' = "mkdir"
                  /\ stderr' = Append(stderr, Line("[ERR] Destination exists (use --force): ", dst))
                  /\ status' = 2
                  /\ pc' = "exited"
              ELSE
                  /\ pc' = "dstcheck"
                  /\ UNCHANGED <<raised, stderr, status>>
    /\ UNCHANGED <<data, ro, argv, fault, dst, pre, stdout, copied>>

\* line 32: dst.parent.mkdir(parents=True, exist_ok=True)
MakeParents ==
    /\ pc = "mkdir"
    /\ LET r == Mkdir(fs, ro, Parent(dst), TRUE, TRUE)
       IN  /\ fs' = r.fs
           /\ IF r.err # "" THEN
                  /\ raised' = "mkdir"
                  /\ stderr' = stderr \o Traceback(ExcName(r.err), Parent(dst))
                  /\ status' = 1
                  /\ pc' = "exited"
              ELSE
                  /\ pc' = "dstcheck"
                  /\ UNCHANGED <<raised, stderr, status>>
    /\ UNCHANGED <<data, ro, argv, fault, dst, pre, stdout, copied>>

\* mutant: the existence check is missing, every run overwrites
CheckDst_NoGuard ==
    /\ pc = "dstcheck"
    /\ pc' = "copy"
    /\ UNCHANGED <<fs, data, ro, argv, fault, dst, pre, status, stdout, stderr,
                   raised, copied>>

\* mutant: --force is ignored, an existing destination is always refused
CheckDst_NoForce ==
    /\ pc = "dstcheck"
    /\ IF Exists(fs, dst) THEN
           /\ stderr' = Append(stderr, Line("[ERR] Destination exists (use --force): ", dst))
           /\ status' = 2
           /\ pc' = "exited"
       ELSE
           /\ pc' = "copy"
           /\ UNCHANGED <<status, stderr>>
    /\ UNCHANGED <<fs, data, ro, argv, fault, dst, pre, stdout, raised, copied>>

\* mutant: the destination-exists branch returns 1
CheckDst_ExitOne ==
    /\ pc = "dstcheck"
    /\ IF Exists(fs, dst) /\ ~argv.force THEN
           /\ stderr' = Append(stderr, Line("[ERR] Destination exists (use --force): ", dst))
           /\ status' = 1
           /\ pc' = "exited"
       ELSE
           /\ pc' = "copy"
           /\ UNCHANGED <<status, stderr>>
    /\ UNCHANGED <<fs, data, ro, argv, fault, dst, pre, stdout, raised, copied>>

\* lines 34-36
CheckDst ==
    /\ pc = "dstcheck"
    /\ IF Exists(fs, dst) /\ ~argv.force THEN
           /\ stderr' = Append(stderr, Line("[ERR] Destination exists (use --force): ", dst))
           /\ status' = 2
           /\ pc' = "exited"
       ELSE
           /\ pc' = "copy"
           /\ UNCHANGED <<status, stderr>>
    /\ UNCHANGED <<fs, data, ro, argv, fault, dst, pre, stdout, raised, copied>>

\* line 38: shutil.copyfile(src, dst)
CopyFile ==
    /\ pc = "copy"
    /\ \E r \in Copyfile(fs, data, ro, src, dst, fault) :
          /\ fs' = r.fs
          /\ data' = r.data
          /\ IF r.err # "" THEN
                 /\ raised' = "copyfile"
                 /\ stderr' = stderr \o Traceback(r.err, dst)
                 /\ status' = 1
                 /\ pc' = "exited"
                 /\ UNCHANGED copied
             ELSE
                 /\ copied' = TRUE
                 /\ pc' = "print"
                 /\ UNCHANGED <<raised, stderr, status>>
    /\ UNCHANGED <<ro, argv, fault, dst, pre, stdout>>

\* mutant: the OK line goes to stderr
ReportOk_ToStderr ==
    /\ pc = "print"
    /\ stderr' = Append(stderr, Line("[OK] Wrote: ", dst))
    /\ status' = 0
    /\ pc' = "exited"
    /\ UNCHANGED <<fs, data, ro, argv, fault, dst, pre, stdout, raised, copied>>

\* lines 39-40, then line 44's SystemExit(0)
ReportOk ==
    /\ pc = "print"
    /\ stdout' = Append(stdout, Line("[OK] Wrote: ", dst))
    /\ status' = 0
    /\ pc' = "exited"
    /\ UNCHANGED <<fs, data, ro, argv, fault, dst, pre, stderr, raised, copied>>

Next ==
    \/ \E a \in Argvs, flt \in BOOLEAN : (a.kind # "ok" => ~flt) /\ Invoke(a, flt)
    \/ ParseArgs
    \/ CheckSource
    \/ ResolveDst
    \/ MakeParents
    \/ CheckDst
    \/ CopyFile
    \/ ReportOk

Spec == Init /\ [][Next]_vars

TypeOK ==
    /\ fs \in [Paths -> [kind : {"none", "dir", "file"}, ino : Paths]]
    /\ data \in [Paths -> Contents]
    /\ ro \subseteq Paths
    /\ pc \in {"idle", "parse", "srccheck", "resolve", "mkdir", "dstcheck",
               "copy", "print", "exited"}
    /\ argv \in Argvs
    /\ dst \in Paths
    /\ status \in {0, 1, 2}

\* ------------------------------------------------------------ vocabulary
\* the process has ended
Done == pc = "exited"

\* a run whose command line gave main() a destination and a force flag
Ran == Done /\ argv.kind = "ok"

Dest == Resolve(argv.out)

ContentAt(f, dt, p) == dt[f[p].ino]

SrcPresent == Exists(pre.fs, src)

SrcBytes == ContentAt(pre.fs, pre.data, src)

\* no write-protected path and no device failure during the run
Writable == ro = {} /\ ~fault

DestUntouched ==
    /\ fs[Dest] = pre.fs[Dest]
    /\ ContentAt(fs, data, Dest) = ContentAt(pre.fs, pre.data, Dest)

DestHoldsSource ==
    /\ fs[Dest].kind = "file"
    /\ ContentAt(fs, data, Dest) = SrcBytes

\* every existing component of the destination's parent chain is a directory
ChainIsDirs == LookupParent(pre.fs, Dest) # "ENOTDIR"

\* ---------------------------------------------------------------- C1
\* C1 as stated: for every destination that does not exist, on a writable
\* filesystem with the source present, a run without --force exits 0 and
\* leaves the destination with the source's bytes.
C1_AsStated ==
    (Ran /\ SrcPresent /\ Writable /\ ~argv.force /\ ~Exists(pre.fs, Dest))
        => (status = 0 /\ DestHoldsSource)

\* C1 (amended): the same, for destinations whose parent chain has no
\* regular file among its existing components.
C1_FreshInstall ==
    (Ran /\ SrcPresent /\ Writable /\ ~argv.force /\ ~Exists(pre.fs, Dest)
         /\ ChainIsDirs)
        => (status = 0 /\ DestHoldsSource)

C1_Witness ==
    /\ Ran /\ SrcPresent /\ Writable /\ ~argv.force /\ ~Exists(pre.fs, Dest)
    /\ ChainIsDirs
    /\ SrcBytes # <<>>
    /\ status = 0
    /\ DestHoldsSource

\* ---------------------------------------------------------------- C2
\* C2: when the destination already exists and --force is not given, the run
\* ends with a non-zero exit status and the destination is exactly what it
\* was before the run, whatever it held.
C2_RefuseOverwrite ==
    (Ran /\ Exists(pre.fs, Dest) /\ ~argv.force)
        => (status # 0 /\ DestUntouched)

C2_Witness ==
    /\ Ran /\ ~argv.force /\ SrcPresent
    /\ pre.fs[Dest].kind = "file"
    /\ ContentAt(pre.fs, pre.data, Dest) # SrcBytes
    /\ status = 2
    /\ DestUntouched

\* ---------------------------------------------------------------- C3
\* C3 as stated: with --force, on every existing destination file (source
\* present, writable filesystem), the run exits 0 and the destination holds
\* the source's bytes.
C3_AsStated ==
    (Ran /\ SrcPresent /\ Writable /\ argv.force /\ pre.fs[Dest].kind = "file")
        => (status = 0 /\ DestHoldsSource)

\* C3 (amended): with --force, on every existing destination file that is
\* not the source asset itself nor a hard link to it, the run exits 0 and
\* the destination holds the source's bytes; and every --force run that
\* exits 0 leaves the destination byte-identical to the source, which is
\* still what it was.
C3_ForceOverwrites ==
    /\ (Ran /\ SrcPresent /\ Writable /\ argv.force /\ pre.fs[Dest].kind = "file"
           /\ ~SameFile(pre.fs, src, Dest))
          => (status = 0 /\ DestHoldsSource)
    /\ (Ran /\ argv.force /\ status = 0)
          => (DestHoldsSource /\ ContentAt(fs, data, src) = SrcBytes)

C3_Witness ==
    /\ Ran /\ SrcPresent /\ Writable /\ argv.force
    /\ pre.fs[Dest].kind = "file"
    /\ ~SameFile(pre.fs, src, Dest)
    /\ ContentAt(pre.fs, pre.data, Dest) # SrcBytes
    /\ status = 0
    /\ DestHoldsSource

\* ---------------------------------------------------------------- C4
\* C4: if the source asset is absent, every run (any destination, with or
\* without --force) ends with a non-zero exit status, creates no file at
\* the destination and leaves an existing destination as it was.
C4_MissingSource ==
    (Ran /\ ~SrcPresent) => (status # 0 /\ DestUntouched)

C4_Witness ==
    /\ Ran /\ ~SrcPresent /\ argv.force
    /\ pre.fs[Dest].kind = "file"
    /\ ContentAt(pre.fs, pre.data, Dest) # <<>>
    /\ status = 2
    /\ DestUntouched

\* ---------------------------------------------------------------- C5
\* the two conditions main() turns into its own error return
HandledError ==
    \/ ~SrcPresent
    \/ (argv.kind = "ok" /\ Exists(pre.fs, Dest) /\ ~argv.force)

ExitCodesMatch ==
    /\ status = 0 <=> (copied /\ DestHoldsSource)
    /\ status = 2 <=> HandledError

\* C5 as stated: of every run (a request for the help text set aside), the
\* exit status is 0 exactly when the copy was performed and the destination
\* written, and 2 exactly when the source is missing or the destination
\* exists without --force; nothing else yields 2.
C5_AsStated == (Done /\ argv.kind # "help") => ExitCodesMatch

\* C5 (amended): of every run whose command line the argument parser
\* accepts (a destination given, no --help), the exit status is 0 exactly
\* when the copy was performed and the destination written, and 2 exactly
\* when the source is missing or the destination exists without --force.
C5_ExitCodes == Ran => ExitCodesMatch

C5_Witness ==
    /\ Ran /\ SrcPresent /\ ~argv.force /\ Exists(pre.fs, Dest)
    /\ status = 2
    /\ ~copied

\* ---------------------------------------------------------------- C6
\* after line 32 every directory above the destination exists
ChainCreated == LookupParent(fs, Dest) = ""

ChainPresent == argv.kind = "ok" /\ LookupParent(pre.fs, Dest) = ""

\* what C6 says of a parent chain that already exists: line 32 raises
\* nothing and changes nothing
MkdirIdempotent ==
    (ChainPresent /\ pc \notin {"idle", "parse"})
        => (raised # "mkdir" /\ (pc = "dstcheck" => fs = pre.fs))

\* C6 as stated: if directories of the destination's parent chain are
\* missing (source present, destination absent, writable filesystem), the
\* run creates them all and exits 0; an existing chain is left alone
\* without error.
C6_AsStated ==
    /\ (Ran /\ SrcPresent /\ Writable /\ ~Exists(pre.fs, Dest) /\ ~ChainPresent)
          => (status = 0 /\ ChainCreated)
    /\ MkdirIdempotent

\* C6 (amended): the same, provided the filesystem is writable and no
\* existing component of the parent chain is a regular file.
C6_CreatesParents ==
    /\ (Ran /\ SrcPresent /\ Writable /\ ~Exists(pre.fs, Dest) /\ ~ChainPresent
           /\ ChainIsDirs)
          => (status = 0 /\ ChainCreated)
    /\ MkdirIdempotent

C6_Witness ==
    /\ Ran /\ SrcPresent /\ Writable
    /\ Len(Dest) = MaxDepth
    /\ ~Exists(pre.fs, Chain(1))
    /\ status = 0
    /\ \A k \in 1..(MaxDepth - 1) : fs[Chain(k)].kind = "dir"
    /\ DestHoldsSource

\* ---------------------------------------------------------------- C7
OkLine == Line("[OK] Wrote: ", Dest)

IsErrLine(l) ==
    l \in {Line("[ERR] Missing source module: ", src),
           Line("[ERR] Destination exists (use --force): ", Dest)}

OneErrLine == Len(stderr) = 1 /\ IsErrLine(stderr[1])

\* the OK line is never out before the copy has completed
OkAfterCopy == (argv.kind = "ok" /\ stdout # <<>>) => (copied /\ DestHoldsSource)

\* C7 as stated: a run that ends in success prints exactly the OK line
\* with the resolved destination on stdout and nothing on stderr; a run that
\* ends in failure prints exactly one ERR line on stderr and nothing on
\* stdout; the OK line comes only after the copy.
C7_AsStated ==
    /\ (Ran /\ status = 0) => (stdout = <<OkLine>> /\ stderr = <<>>)
    /\ (Ran /\ status # 0) => (OneErrLine /\ stdout = <<>>)
    /\ OkAfterCopy

\* C7 (amended): a run that copies and exits 0 prints exactly the OK line
\* with the resolved destination on stdout and nothing on stderr; a run that
\* ends in one of the two handled failures (exit status 2) prints exactly
\* one ERR line on stderr and nothing on stdout; the OK line comes only
\* after the copy.  (An unhandled error prints the runtime's traceback.)
C7_Output ==
    /\ (Ran /\ status = 0) => (stdout = <<OkLine>> /\ stderr = <<>>)
    /\ (Ran /\ status = 2) => (OneErrLine /\ stdout = <<>>)
    /\ OkAfterCopy

C7_Witness ==
    /\ Ran /\ status = 0
    /\ argv.out # Dest
    /\ stdout = <<OkLine>>
    /\ stderr = <<>>
    /\ copied

\* ---------------------------------------------------------------- C8
\* C8: a failure of the directory creation or of the copy is not turned
\* into a handled error: the run ends neither with exit status 0 nor with
\* the ERR line and exit status 2, prints no OK line, and after a failed
\* directory creation nothing has been written at the destination.
C8_Unhandled ==
    (Done /\ raised # "none")
        => /\ status \notin {0, 2}
           /\ stdout = <<>>
           /\ \A n \in 1..Len(stderr) : ~IsErrLine(stderr[n])
           /\ raised = "mkdir" => DestUntouched

C8_Witness ==
    /\ Ran /\ SrcPresent
    /\ LookupParent(pre.fs, Dest) = "ENOTDIR"
    /\ raised = "mkdir"
    /\ status = 1
    /\ ~Exists(fs, Dest)

\* ---------------------------------------------------------------- C9
\* C9: a run that ends with exit status 2 leaves the whole filesystem as
\* it was, directories included.
C9_NoSideEffects ==
    (Done /\ status = 2) => (fs = pre.fs /\ data = pre.data)

C9_Witness ==
    /\ Ran /\ ~SrcPresent
    /\ Len(Dest) = MaxDepth
    /\ ~Exists(pre.fs, Chain(1))
    /\ status = 2
    /\ ~Exists(fs, Chain(1))

\* --------------------------------------------------------------- C10
\* C10: no step of any run removes the source asset or changes its bytes,
\* also when --out resolves to the asset itself.
C10_SourceKept ==
    [][Exists(fs, src) => (fs'[src] = fs[src]
                            /\ ContentAt(fs', data', src) = ContentAt(fs, data, src))]_vars

C10_Witness ==
    /\ Ran /\ SrcPresent /\ argv.force
    /\ Dest = src
    /\ raised = "copyfile"
    /\ SrcBytes # <<>>
    /\ ContentAt(fs, data, src) = SrcBytes

====
